---- MODULE Spec2Model ----
(***************************************************************************)
(* Art-Net -> WiZ bridge (src/artnet-daemon.js, class ArtNetWizBridge).    *)
(*                                                                         *)
(* Node.js runs every handler to completion, so each action below is one   *)
(* handler (a DMX frame, a UDP send callback, a timer, the settling of a   *)
(* verification, a config reload) with every call it makes.                *)
(*                                                                         *)
(* The supervisor of the bridge process (src/server.js) and the bulb       *)
(* discovery (src/wiz-discovery.js) are modelled the same way, each with   *)
(* its own variables and its own specification.                            *)
(***************************************************************************)
EXTENDS Integers, Sequences, FiniteSets, TLC

VARIABLES
  devices,                \* this.devices
  lastReceivedDmxValues,  \* this.lastReceivedDmxValues   (mac -> vector)
  lastSentDmxValues,      \* this.lastSentDmxValues       (mac -> vector)
  messageQueues,          \* this.messageQueues           (mac -> sequence of messages)
  processing,             \* this.processing              (mac -> BOOLEAN)
  queueStats,             \* this.queueStats              (mac -> {queued, sent, dropped})
  pending,                \* mac -> set of continuations waiting in the event loop
  wire,                   \* history: what was handed to udpClient.send as setPilot
  ev,                     \* history: the handler that ran last
  nframes,                \* history: DMX frames handled
  nreloads,               \* history: config reloads run
  verifier,               \* verifyState: the calls whose listener, send or timer is live;
                          \* history: datagrams that reached them
  \* src/server.js
  listening,              \* the app.listen callback has run
  artnetDaemon,           \* artnetDaemon: 0 for null, else the child process
  restartCount,           \* restartCount
  lastRestartTime,        \* lastRestartTime: 0 for null, else milliseconds
  children,               \* the child processes spawned so far, in order
  timers,                 \* restart timers set and not yet fired
  clock,                  \* Date.now()
  stopped,                \* history: stopArtNetDaemon killed a child, no start request since
  nrequests,              \* history: start and stop requests handled
  supEv,                  \* history: the supervisor handler that ran last
  \* src/wiz-discovery.js
  discoveredDevices,      \* discoveredDevices
  seenMacs,               \* seenMacs
  socket,                 \* the UDP socket, its timer and its pending send callback
  promise,                \* the promise discoverWizFixtures returned
  received                \* history: the datagrams handed to the message handler

bridgeVars == <<devices, lastReceivedDmxValues, lastSentDmxValues, messageQueues,
                processing, queueStats, pending, wire, ev, nframes, nreloads, verifier>>

supVars == <<listening, artnetDaemon, restartCount, lastRestartTime, children, timers,
             clock, stopped, nrequests, supEv>>

discVars == <<discoveredDevices, seenMacs, socket, promise, received>>

vars == <<bridgeVars, supVars, discVars>>

----------------------------------------------------------------------------
(* Bounds of the model *)

MaxFrames == 4
MaxReloads == 2
MaxBurst == 13
MaxDimmerFrames == 1

(* Program constants *)

QueueLimit == 10
MaxRetries == 3
MAX_RESTART_DELAY == 60000
RestartWindow == 60000
BaseDelay == 1000

\* Date.now() when server.js is loaded (any positive number of milliseconds)
Epoch == 1000

----------------------------------------------------------------------------
(* Devices and DMX input *)

D1 == [macAddress |-> "m1", channel |-> 1, ipAddress |-> "ip1"]

Configs == {<<D1>>}

\* six slots R, G, B, C, W, Dimmer
POff0 == <<0, 0, 0, 0, 0, 0>>
POffR == <<255, 0, 0, 0, 0, 0>>
POn   == <<255, 0, 0, 0, 0, 255>>

Frames == { [universe |-> 0, data |-> a] : a \in {POff0, POffR, POn} }

BurstFrames == { [universe |-> 0, data |-> a] : a \in {POff0, POn} }

ZeroVector == [r |-> 0, g |-> 0, b |-> 0, c |-> 0, w |-> 0, dimming |-> 0, state |-> FALSE]
ZeroStats == [queued |-> 0, sent |-> 0, dropped |-> 0]
\* history of a bulb: messages taken from the queue, setPilot datagrams sent,
\* codec calls for an off vector without state change, and of the last
\* datagram the message's place in the order of enqueueing, its vector and the
\* lastSent it was compared with; inOrder: every datagram so far was of a
\* message enqueued later than that of the datagram before
ZeroWire == [taken |-> 0, count |-> 0, offNoChange |-> 0, seq |-> 0, vec |-> ZeroVector,
             against |-> ZeroVector, inOrder |-> TRUE]

\* dmx.data[i] || 0, with i a 0-based JavaScript index
Slot(dmx, i) == IF (i + 1) \in DOMAIN dmx.data THEN dmx.data[i + 1] ELSE 0

\* mutation: the percentage is truncated
DimmingTruncated(dimmerRaw) == (100 * dimmerRaw) \div 255

\* Math.round((dimmerRaw / 255) * 100)
Dimming(dimmerRaw) == (200 * dimmerRaw + 255) \div 510

VectorOf(dmx, device) ==
  LET channel == device.channel
      dimming == Dimming(Slot(dmx, channel + 4))
  IN [r |-> Slot(dmx, channel - 1), g |-> Slot(dmx, channel), b |-> Slot(dmx, channel + 1),
      c |-> Slot(dmx, channel + 2), w |-> Slot(dmx, channel + 3),
      dimming |-> dimming, state |-> dimming > 0]

Vec(m) == [r |-> m.r, g |-> m.g, b |-> m.b, c |-> m.c, w |-> m.w,
           dimming |-> m.dimming, state |-> m.state]

\* the field-by-field comparison of handleDmxData and processQueue
SameVector(last, m) ==
  /\ last.r = m.r /\ last.g = m.g /\ last.b = m.b /\ last.c = m.c /\ last.w = m.w
  /\ last.dimming = m.dimming /\ last.state = m.state

----------------------------------------------------------------------------
(* The bridge's maps as one record, so that the handlers compose as functions *)

Bridge == [lastReceived |-> lastReceivedDmxValues, lastSent |-> lastSentDmxValues,
           queues |-> messageQueues, processing |-> processing, stats |-> queueStats,
           pending |-> pending, wire |-> wire]

Install(B) ==
  /\ lastReceivedDmxValues' = B.lastReceived
  /\ lastSentDmxValues' = B.lastSent
  /\ messageQueues' = B.queues
  /\ processing' = B.processing
  /\ queueStats' = B.stats
  /\ pending' = B.pending
  /\ wire' = B.wire

RECURSIVE ProcessQueue(_, _)
RECURSIVE SendWizCommandQueued(_, _, _)
RECURSIVE SendCallback(_, _, _)
RECURSIVE Complete(_, _)

\* udpClient.send of a setPilot datagram: the callback is left pending
Transmit(B, message, stateChanged) ==
  LET mac == message.device.macAddress IN
  [B EXCEPT !.pending[mac] = @ \cup {[message |-> message, stateChanged |-> stateChanged,
                                       phase |-> "send"]},
            !.wire[mac] = [@ EXCEPT !.count = @ + 1, !.seq = message.seq,
                                    !.vec = Vec(message), !.against = B.lastSent[mac],
                                    !.inOrder = @ /\ message.seq > B.wire[mac].seq]]

\* the codec without its suppression rule
SendWizCommandQueuedAlwaysSends(B, message, stateChanged) ==
  LET mac == message.device.macAddress
      B1 == IF ~message.state /\ ~stateChanged
            THEN [B EXCEPT !.wire[mac].offNoChange = @ + 1] ELSE B
  IN Transmit(B1, message, stateChanged)

SendWizCommandQueued(B, message, stateChanged) ==
  LET mac == message.device.macAddress
      B1 == IF ~message.state /\ ~stateChanged
            THEN [B EXCEPT !.wire[mac].offNoChange = @ + 1] ELSE B
  IN IF ~message.state /\ ~stateChanged
     THEN SendCallback(B1, message, stateChanged)
     ELSE Transmit(B1, message, stateChanged)

\* the tail of the send callback releasing every bulb's pump
CompleteReleasesAll(B, message) ==
  LET mac == message.device.macAddress IN
  ProcessQueue([B EXCEPT !.processing = [x \in DOMAIN @ |-> FALSE],
                         !.lastSent[mac] = Vec(message)], mac)

\* the tail of the send callback: lines 302-316
Complete(B, message) ==
  LET mac == message.device.macAddress IN
  ProcessQueue([B EXCEPT !.processing[mac] = FALSE, !.lastSent[mac] = Vec(message)], mac)

\* the send callback verifying every off message, with `if (!message.state)`
SendCallbackVerifiesAnyOff(B, message, stateChanged) ==
  LET mac == message.device.macAddress
      B1 == [B EXCEPT !.stats[mac].sent = @ + 1]
  IN IF ~message.state
     THEN [B1 EXCEPT !.pending[mac] = @ \cup {[message |-> message,
                                               stateChanged |-> stateChanged,
                                               phase |-> "sleep"]}]
     ELSE Complete(B1, message)

\* the send callback recording the vector before the verification
SendCallbackRecordsFirst(B, message, stateChanged) ==
  LET mac == message.device.macAddress
      B1 == [B EXCEPT !.stats[mac].sent = @ + 1, !.lastSent[mac] = Vec(message)]
  IN IF stateChanged /\ ~message.state
     THEN [B1 EXCEPT !.pending[mac] = @ \cup {[message |-> message,
                                               stateChanged |-> stateChanged,
                                               phase |-> "sleep"]}]
     ELSE Complete(B1, message)

\* the send callback up to its first await
SendCallback(B, message, stateChanged) ==
  LET mac == message.device.macAddress
      B1 == [B EXCEPT !.stats[mac].sent = @ + 1]
  IN IF stateChanged /\ ~message.state
     THEN [B1 EXCEPT !.pending[mac] = @ \cup {[message |-> message,
                                               stateChanged |-> stateChanged,
                                               phase |-> "sleep"]}]
     ELSE Complete(B1, message)

\* processQueue without the `if (this.processing[macAddress]) return`
ProcessQueueNoGuard(B, macAddress) ==
  IF Len(B.queues[macAddress]) = 0 THEN B
  ELSE LET message == Head(B.queues[macAddress])
           B1 == [B EXCEPT !.processing[macAddress] = TRUE, !.queues[macAddress] = Tail(@),
                           !.wire[macAddress].taken = @ + 1]
           lastSentValues == B1.lastSent[macAddress]
           stateChanged == lastSentValues.state # message.state
       IN IF SameVector(lastSentValues, message)
          THEN B1
          ELSE SendWizCommandQueued(B1, message, stateChanged)

\* processQueue without the comparison against the last sent values
ProcessQueueNoCoalesce(B, macAddress) ==
  IF B.processing[macAddress] THEN B
  ELSE IF Len(B.queues[macAddress]) = 0 THEN B
  ELSE LET message == Head(B.queues[macAddress])
           B1 == [B EXCEPT !.processing[macAddress] = TRUE, !.queues[macAddress] = Tail(@),
                           !.wire[macAddress].taken = @ + 1]
           lastSentValues == B1.lastSent[macAddress]
           stateChanged == lastSentValues.state # message.state
       IN SendWizCommandQueued(B1, message, stateChanged)

ProcessQueue(B, macAddress) ==
  IF B.processing[macAddress] THEN B
  ELSE IF Len(B.queues[macAddress]) = 0 THEN B
  ELSE LET message == Head(B.queues[macAddress])
           B1 == [B EXCEPT !.processing[macAddress] = TRUE, !.queues[macAddress] = Tail(@),
                           !.wire[macAddress].taken = @ + 1]
           lastSentValues == B1.lastSent[macAddress]
           stateChanged == lastSentValues.state # message.state
       IN IF SameVector(lastSentValues, message)
          THEN B1
          ELSE SendWizCommandQueued(B1, message, stateChanged)

\* enqueueMessage with `queue.unshift(message)` for `queue.push(message)`
EnqueueMessageAtHead(B, device, v, retryCount) ==
  LET mac == device.macAddress
      message == [device |-> device, r |-> v.r, g |-> v.g, b |-> v.b, c |-> v.c, w |-> v.w,
                  dimming |-> v.dimming, state |-> v.state, retryCount |-> retryCount,
                  seq |-> B.stats[mac].queued + 1]
      full == Len(B.queues[mac]) >= QueueLimit
      B1 == IF full
            THEN [B EXCEPT !.queues[mac] = Tail(@), !.stats[mac].dropped = @ + 1]
            ELSE B
      B2 == [B1 EXCEPT !.queues[mac] = <<message>> \o @, !.stats[mac].queued = @ + 1]
  IN ProcessQueue(B2, mac)

\* enqueueMessage with `queue.length > 10` for `queue.length >= 10`
EnqueueMessageLateLimit(B, device, v, retryCount) ==
  LET mac == device.macAddress
      message == [device |-> device, r |-> v.r, g |-> v.g, b |-> v.b, c |-> v.c, w |-> v.w,
                  dimming |-> v.dimming, state |-> v.state, retryCount |-> retryCount,
                  seq |-> B.stats[mac].queued + 1]
      full == Len(B.queues[mac]) > QueueLimit
      B1 == IF full
            THEN [B EXCEPT !.queues[mac] = Tail(@), !.stats[mac].dropped = @ + 1]
            ELSE B
      B2 == [B1 EXCEPT !.queues[mac] = Append(@, message), !.stats[mac].queued = @ + 1]
  IN ProcessQueue(B2, mac)

\* mutation: the eviction is not counted
EnqueueMessageNoDropCount(B, device, v, retryCount) ==
  LET mac == device.macAddress
      message == [device |-> device, r |-> v.r, g |-> v.g, b |-> v.b, c |-> v.c, w |-> v.w,
                  dimming |-> v.dimming, state |-> v.state, retryCount |-> retryCount,
                  seq |-> B.stats[mac].queued + 1]
      full == Len(B.queues[mac]) >= QueueLimit
      B1 == IF full THEN [B EXCEPT !.queues[mac] = Tail(@)] ELSE B
      B2 == [B1 EXCEPT !.queues[mac] = Append(@, message), !.stats[mac].queued = @ + 1]
  IN ProcessQueue(B2, mac)

EnqueueMessage(B, device, v, retryCount) ==
  LET mac == device.macAddress
      message == [device |-> device, r |-> v.r, g |-> v.g, b |-> v.b, c |-> v.c, w |-> v.w,
                  dimming |-> v.dimming, state |-> v.state, retryCount |-> retryCount,
                  seq |-> B.stats[mac].queued + 1]
      full == Len(B.queues[mac]) >= QueueLimit
      B1 == IF full
            THEN [B EXCEPT !.queues[mac] = Tail(@), !.stats[mac].dropped = @ + 1]
            ELSE B
      B2 == [B1 EXCEPT !.queues[mac] = Append(@, message), !.stats[mac].queued = @ + 1]
  IN ProcessQueue(B2, mac)

\* the forEach body that leaves lastReceivedDmxValues as it was
HandleDeviceNoRecord(B, dmx, device) ==
  LET mac == device.macAddress
      v == VectorOf(dmx, device)
  IN IF SameVector(B.lastReceived[mac], v)
     THEN B
     ELSE EnqueueMessage(B, device, v, 0)

\* the body of the forEach of handleDmxData, for one device
HandleDevice(B, dmx, device) ==
  LET mac == device.macAddress
      v == VectorOf(dmx, device)
  IN IF SameVector(B.lastReceived[mac], v)
     THEN B
     ELSE [EnqueueMessage(B, device, v, 0) EXCEPT !.lastReceived[mac] = v]

RECURSIVE ForEachDevice(_, _, _)
ForEachDevice(B, dmx, ds) ==
  IF ds = <<>> THEN B
  ELSE ForEachDevice(HandleDevice(B, dmx, Head(ds)), dmx, Tail(ds))

\* mutation: frames of every universe are processed
HandleDmxDataAnyUniverse(B, dmx) == ForEachDevice(B, dmx, devices)

HandleDmxData(B, dmx) ==
  IF dmx.universe # 0 THEN B ELSE ForEachDevice(B, dmx, devices)

\* the continuation that retries whatever the verification said
AfterVerifyIgnoresResult(B, message, verified) ==
  LET mac == message.device.macAddress IN
  IF message.retryCount < MaxRetries
  THEN EnqueueMessage([B EXCEPT !.processing[mac] = FALSE], message.device, Vec(message),
                      message.retryCount + 1)
  ELSE Complete(B, message)

\* the continuation with `message.retryCount <= 3` for `message.retryCount < 3`
AfterVerifyOneMoreRetry(B, message, verified) ==
  LET mac == message.device.macAddress IN
  IF ~verified /\ message.retryCount <= MaxRetries
  THEN EnqueueMessage([B EXCEPT !.processing[mac] = FALSE], message.device, Vec(message),
                      message.retryCount + 1)
  ELSE Complete(B, message)

\* the continuation of the send callback after `await this.verifyState(...)`
AfterVerify(B, message, verified) ==
  LET mac == message.device.macAddress IN
  IF ~verified /\ message.retryCount < MaxRetries
  THEN EnqueueMessage([B EXCEPT !.processing[mac] = FALSE], message.device, Vec(message),
                      message.retryCount + 1)
  ELSE Complete(B, message)

\* the forEach of loadDevices, for one device
InitDevice(B, device) ==
  LET mac == device.macAddress
      known == mac \in DOMAIN B.queues
  IN [B EXCEPT !.lastReceived = (mac :> ZeroVector) @@ @,
               !.lastSent = (mac :> ZeroVector) @@ @,
               !.queues = IF known THEN @ ELSE (mac :> <<>>) @@ @,
               !.processing = IF known THEN @ ELSE (mac :> FALSE) @@ @,
               !.stats = IF known THEN @ ELSE (mac :> ZeroStats) @@ @,
               !.pending = IF known THEN @ ELSE (mac :> {}) @@ @,
               !.wire = IF known THEN @ ELSE (mac :> ZeroWire) @@ @]

RECURSIVE InitDevices(_, _)
InitDevices(B, ds) ==
  IF ds = <<>> THEN B ELSE InitDevices(InitDevice(B, Head(ds)), Tail(ds))

----------------------------------------------------------------------------
(* Actions *)

\* whether the handler that turned the bridge into B evicted a message of mac
Evicted(B, mac) ==
  /\ mac \in DOMAIN queueStats
  /\ B.stats[mac].dropped > queueStats[mac].dropped

NoEvent == [op |-> "none", mac |-> "", arg |-> <<>>, ok |-> FALSE, evicted |-> FALSE]

\* server.js as loaded: no child yet, the HTTP server not yet listening
SupInit ==
  /\ listening = FALSE
  /\ artnetDaemon = 0
  /\ restartCount = 0
  /\ lastRestartTime = 0
  /\ children = <<>>
  /\ timers = {}
  /\ clock = Epoch
  /\ stopped = FALSE
  /\ nrequests = 0
  /\ supEv = [op |-> "none", child |-> 0, delay |-> 0]

\* discoverWizFixtures called: the socket created, nothing bound yet
DiscInit ==
  /\ discoveredDevices = <<>>
  /\ seenMacs = {}
  /\ socket = [state |-> "created", timer |-> FALSE, sending |-> FALSE, closes |-> 0,
               threw |-> FALSE]
  /\ promise = [state |-> "pending", value |-> <<>>, calls |-> 0]
  /\ received = <<>>

Init ==
  /\ SupInit
  /\ DiscInit
  /\ devices = <<>>
  /\ lastReceivedDmxValues = <<>>
  /\ lastSentDmxValues = <<>>
  /\ messageQueues = <<>>
  /\ processing = <<>>
  /\ queueStats = <<>>
  /\ pending = <<>>
  /\ wire = <<>>
  /\ ev = NoEvent
  /\ nframes = 0
  /\ nreloads = 0
  /\ verifier = [calls |-> <<>>, heard |-> 0]

\* loadDevices, storage.readAll() resolved with list
LoadDevices(list) ==
  /\ devices' = list
  /\ Install(InitDevices(Bridge, list))
  /\ ev' = [op |-> "load", mac |-> "", arg |-> list, ok |-> TRUE, evicted |-> FALSE]
  /\ nreloads' = nreloads + 1
  /\ UNCHANGED <<nframes, verifier, supVars, discVars>>

\* mutation: a failed load leaves an empty device list
LoadDevicesFailedClears ==
  /\ devices' = <<>>
  /\ ev' = [op |-> "load", mac |-> "", arg |-> <<>>, ok |-> FALSE, evicted |-> FALSE]
  /\ nreloads' = nreloads + 1
  /\ UNCHANGED <<lastReceivedDmxValues, lastSentDmxValues, messageQueues,
                 processing, queueStats, pending, wire, nframes, verifier, supVars, discVars>>

\* loadDevices, storage.readAll() rejected
LoadDevicesFailed ==
  /\ ev' = [op |-> "load", mac |-> "", arg |-> <<>>, ok |-> FALSE, evicted |-> FALSE]
  /\ nreloads' = nreloads + 1
  /\ UNCHANGED <<devices, lastReceivedDmxValues, lastSentDmxValues, messageQueues,
                 processing, queueStats, pending, wire, nframes, verifier, supVars, discVars>>

\* controller.on('dmx')
Dmx(dmx) ==
  /\ Install(HandleDmxData(Bridge, dmx))
  /\ ev' = [op |-> "dmx", mac |-> "", arg |-> dmx, ok |-> HandleDmxData(Bridge, dmx) # Bridge,
            evicted |-> \E mac \in DOMAIN queueStats : Evicted(HandleDmxData(Bridge, dmx), mac)]
  /\ nframes' = nframes + 1
  /\ UNCHANGED <<devices, nreloads, verifier, supVars, discVars>>

\* the callback of udpClient.send for a setPilot (err or not)
SendDone(mac, e, err) ==
  /\ e \in pending[mac] /\ e.phase = "send"
  /\ Install(SendCallback([Bridge EXCEPT !.pending[mac] = @ \ {e}], e.message, e.stateChanged))
  /\ ev' = [op |-> "sendDone", mac |-> mac, arg |-> e, ok |-> ~err, evicted |-> FALSE]
  /\ UNCHANGED <<devices, nframes, nreloads, verifier, supVars, discVars>>

\* the 200 ms timer fires and verifyState is called
SleepDone(mac, e) ==
  /\ e \in pending[mac] /\ e.phase = "sleep"
  /\ pending' = [pending EXCEPT ![mac] = (@ \ {e}) \cup {[e EXCEPT !.phase = "verify"]}]
  /\ ev' = [op |-> "sleepDone", mac |-> mac, arg |-> e, ok |-> TRUE, evicted |-> FALSE]
  /\ UNCHANGED <<devices, lastReceivedDmxValues, lastSentDmxValues, messageQueues,
                 processing, queueStats, wire, nframes, nreloads, verifier, supVars, discVars>>

\* verifyState settles with verified
VerifyDone(mac, e, verified) ==
  /\ e \in pending[mac] /\ e.phase = "verify"
  /\ Install(AfterVerify([Bridge EXCEPT !.pending[mac] = @ \ {e}], e.message, verified))
  /\ ev' = [op |-> "verifyDone", mac |-> mac, arg |-> e, ok |-> verified,
            evicted |-> Evicted(AfterVerify([Bridge EXCEPT !.pending[mac] = @ \ {e}],
                                            e.message, verified), mac)]
  /\ UNCHANGED <<devices, nframes, nreloads, verifier, supVars, discVars>>

DmxStep(F, max) == nframes < max /\ \E dmx \in F : Dmx(dmx)
ReloadStep(C, max) == nreloads < max /\ \E list \in C : LoadDevices(list)
ReloadFailStep(max) == nreloads < max /\ LoadDevicesFailed
SendDoneStep == \E mac \in DOMAIN pending : \E e \in pending[mac] : \E err \in BOOLEAN : SendDone(mac, e, err)
SleepDoneStep == \E mac \in DOMAIN pending : \E e \in pending[mac] : SleepDone(mac, e)
VerifyDoneStep == \E mac \in DOMAIN pending : \E e \in pending[mac] : \E v \in BOOLEAN : VerifyDone(mac, e, v)

Next ==
  \/ DmxStep(Frames, MaxFrames)
  \/ ReloadStep(Configs, MaxReloads)
  \/ ReloadFailStep(MaxReloads)
  \/ SendDoneStep
  \/ SleepDoneStep
  \/ VerifyDoneStep

Spec == Init /\ [][Next]_vars

\* one bulb, a burst of alternating frames long enough to overflow the queue
NextBurst ==
  \/ DmxStep(BurstFrames, MaxBurst)
  \/ (devices = <<>> /\ LoadDevices(<<D1>>))
  \/ SendDoneStep
  \/ SleepDoneStep
  \/ VerifyDoneStep

SpecBurst == Init /\ [][NextBurst]_vars

\* frames of another universe among those of universe 0
OtherUniverse == { [universe |-> 1, data |-> a] : a \in {POff0, POn} }

NextUniverse ==
  \/ DmxStep(Frames \cup OtherUniverse, MaxFrames)
  \/ ReloadStep(Configs, MaxReloads)
  \/ SendDoneStep
  \/ SleepDoneStep
  \/ VerifyDoneStep

SpecUniverse == Init /\ [][NextUniverse]_vars

\* frames with every value of the dimmer slot
DimmerFrames == { [universe |-> 0, data |-> <<255, 0, 0, 0, 0, raw>>] : raw \in 0..255 }

\* the bulb is configured, frames arrive and their sends complete
NextDimmer ==
  \/ DmxStep(DimmerFrames, MaxDimmerFrames)
  \/ (devices = <<>> /\ LoadDevices(<<D1>>))
  \/ SendDoneStep

SpecDimmer == Init /\ [][NextDimmer]_vars

----------------------------------------------------------------------------
(* Properties *)

Macs == DOMAIN messageQueues

Phase(mac, ph) == {e \in pending[mac] : e.phase = ph}

\* the pump holds the flag but nothing is in flight that would release it
Stalled(mac) == processing[mac] /\ pending[mac] = {}

\* C1: for every bulb at most one send, with its post-off sleep and its
\* verification, is in flight, and only while processing[mac] is true.
C1_OneInFlight ==
  \A mac \in Macs :
    /\ Cardinality(pending[mac]) <= 1
    /\ pending[mac] # {} => processing[mac]

\* a verification is pending while frames have queued up behind it and a reload ran
C1_Witness ==
  /\ "m1" \in Macs
  /\ Phase("m1", "verify") # {}
  /\ Len(messageQueues["m1"]) >= 2
  /\ nreloads >= 2

\* C3: the setPilot datagrams handed to the socket never carry the vector that
\* lastSent held when the message was dequeued.
C3_NeverSendsLastSent ==
  \A mac \in Macs :
    wire[mac].count > 0 => ~SameVector(wire[mac].against, wire[mac].vec)

\* a dequeued message equal to lastSent was dropped after earlier transmissions
C3_Witness ==
  /\ "m1" \in Macs
  /\ Stalled("m1")
  /\ lastSentDmxValues["m1"].state
  /\ wire["m1"].count >= 2

\* C4: a codec call with state = false and stateChanged = false transmits
\* nothing, starts no verification and runs the completion callback at once:
\* every codec call is a transmission or such a call, every one of them has
\* had its callback or (a transmission only) awaits it, and no datagram and no
\* verification is for an off vector against an off lastSent.
C4_OffNoChangeSuppressed ==
  \A mac \in Macs :
    /\ queueStats[mac].sent + Cardinality(Phase(mac, "send"))
         = wire[mac].count + wire[mac].offNoChange
    /\ wire[mac].count > 0 => (wire[mac].vec.state \/ wire[mac].against.state)
    /\ \A e \in pending[mac] : e.message.state \/ e.stateChanged

\* an off vector was suppressed and the pump went on to transmit the next message
C4_Witness ==
  /\ "m1" \in Macs
  /\ wire["m1"].offNoChange >= 1
  /\ wire["m1"].count >= 1
  /\ queueStats["m1"].sent > wire["m1"].count - Cardinality(Phase("m1", "send"))

\* a handler enqueues a message for mac while the queue of mac is full
EnqueuesOnFull(mac) ==
  /\ Len(messageQueues[mac]) = QueueLimit
  /\ queueStats'[mac].queued = queueStats[mac].queued + 1

\* the message that handler enqueues
Enqueued(mac) ==
  LET v == IF ev'.op = "dmx" THEN VectorOf(ev'.arg, D1) ELSE Vec(ev'.arg.message)
      retryCount == IF ev'.op = "dmx" THEN 0 ELSE ev'.arg.message.retryCount + 1
  IN [device |-> D1, r |-> v.r, g |-> v.g, b |-> v.b, c |-> v.c, w |-> v.w,
      dimming |-> v.dimming, state |-> v.state, retryCount |-> retryCount,
      seq |-> queueStats'[mac].queued]

IsSuffix(s, t) == \E k \in 0..Len(t) : s = SubSeq(t, k + 1, Len(t))

\* C2 as stated: the queue never holds more than 10 messages, and a call of
\* enqueueMessage on a queue of 10 leaves the queue without its head and with
\* the new message at its tail, and stats.dropped one higher.
C2_AsStated ==
  /\ [](\A mac \in Macs : Len(messageQueues[mac]) <= QueueLimit)
  /\ [][\A mac \in Macs : EnqueuesOnFull(mac) =>
          /\ messageQueues'[mac] = Append(Tail(messageQueues[mac]), Enqueued(mac))
          /\ queueStats'[mac].dropped = queueStats[mac].dropped + 1]_vars

\* C2, amended: the queue never holds more than 10 messages; a call of
\* enqueueMessage on a queue of 10 evicts exactly the head, counts one drop and
\* appends the new message at the tail; what else leaves the queue in that
\* call is dequeued from the head by the pump: nothing when the call comes
\* from a DMX frame (the pump is busy), at least one message when it is the
\* retry of a failed verification (the pump is idle then).
C2_DropOldest ==
  /\ [](\A mac \in Macs : Len(messageQueues[mac]) <= QueueLimit)
  /\ [][\A mac \in Macs : EnqueuesOnFull(mac) =>
          LET took == wire'[mac].taken - wire[mac].taken IN
          /\ queueStats'[mac].dropped = queueStats[mac].dropped + 1
          /\ messageQueues'[mac] = SubSeq(Append(Tail(messageQueues[mac]), Enqueued(mac)),
                                          took + 1, QueueLimit)
          /\ ev'.op = "dmx" => took = 0
          /\ ev'.op # "dmx" => took >= 1]_vars

\* the retry of a failed verification found the queue full and evicted its head
C2_Witness ==
  /\ ev.op = "verifyDone" /\ ~ev.ok /\ ev.evicted
  /\ queueStats["m1"].dropped >= 2
  /\ Len(messageQueues["m1"]) = QueueLimit - 1

\* a DMX frame is handled while mac is a configured device
DmxFor(mac) == ev'.op = "dmx" /\ \E i \in DOMAIN devices : devices[i].macAddress = mac

BulbState(mac) ==
  <<lastReceivedDmxValues[mac], lastSentDmxValues[mac], messageQueues[mac], processing[mac],
    queueStats[mac], pending[mac], wire[mac]>>

\* C5 as stated, for a pump that is idle when the first frame arrives: the
\* first of two identical frames is transmitted unless its vector equals
\* lastSent, and the second, which finds its vector in lastReceived, causes no
\* further datagram.
C5_AsStated ==
  [][\A mac \in Macs : DmxFor(mac) =>
       LET v == VectorOf(ev'.arg, D1) IN
       IF SameVector(lastReceivedDmxValues[mac], v)
       THEN wire'[mac].count = wire[mac].count
       ELSE ~processing[mac] =>
              wire'[mac].count = wire[mac].count
                                 + (IF SameVector(lastSentDmxValues[mac], v) THEN 0 ELSE 1)]_vars

\* C5, amended: a frame whose vector equals lastReceived changes nothing for
\* the bulb (no enqueue, no datagram); any other frame is enqueued exactly once
\* and recorded in lastReceived, and it is transmitted in the same handler
\* exactly when the pump is idle, the vector differs from lastSent and it is
\* not an off vector against an off lastSent.
C5_RepeatedFrameSkipped ==
  [][\A mac \in Macs : DmxFor(mac) =>
       LET v == VectorOf(ev'.arg, D1) IN
       IF SameVector(lastReceivedDmxValues[mac], v)
       THEN BulbState(mac)' = BulbState(mac)
       ELSE /\ queueStats'[mac].queued = queueStats[mac].queued + 1
            /\ lastReceivedDmxValues'[mac] = v
            /\ wire'[mac].count = wire[mac].count
                  + (IF /\ ~processing[mac]
                        /\ ~SameVector(lastSentDmxValues[mac], v)
                        /\ (v.state \/ lastSentDmxValues[mac].state)
                     THEN 1 ELSE 0)]_vars

\* the frame that was transmitted came again and was skipped: one datagram in all
C5_Witness ==
  /\ ev.op = "dmx" /\ ~ev.ok
  /\ nframes >= 2
  /\ "m1" \in Macs
  /\ lastReceivedDmxValues["m1"].state
  /\ wire["m1"].count = 1
  /\ queueStats["m1"].queued = 1

Verifying(mac) == Phase(mac, "sleep") \cup Phase(mac, "verify")

\* the send of an off message that changed the state has just completed
OffTransitionSent(mac) ==
  /\ ev'.op = "sendDone" /\ ev'.mac = mac
  /\ ~ev'.arg.message.state /\ ev'.arg.stateChanged

\* C6: the 200 ms sleep that leads to getPilot starts exactly when the send of
\* an off message with stateChanged completes, and getPilot is sent only when
\* that sleep ends; while either is pending processing[mac] is true, nothing
\* else is in flight and the last setPilot sent to the bulb is that message.
C6_VerifyOnlyOffTransition ==
  /\ [](\A mac \in Macs : \A e \in Verifying(mac) :
         /\ ~e.message.state /\ e.stateChanged
         /\ processing[mac]
         /\ pending[mac] = {e}
         /\ wire[mac].seq = e.message.seq)
  /\ [][\A mac \in Macs :
          /\ (Phase(mac, "sleep")' \ Phase(mac, "sleep") # {}) <=> OffTransitionSent(mac)
          /\ (Phase(mac, "verify")' \ Phase(mac, "verify") # {}) <=>
                (ev'.op = "sleepDone" /\ ev'.mac = mac)
          /\ Verifying(mac) # {} /\ Verifying(mac)' # {} => wire'[mac] = wire[mac]]_vars

\* getPilot has just been sent for an off-transition while frames queued up
C6_Witness ==
  /\ ev.op = "sleepDone"
  /\ Phase("m1", "verify") # {}
  /\ Len(messageQueues["m1"]) >= 2

\* the verification of the message of ev' has just failed
VerifyFailed(mac) == ev'.op = "verifyDone" /\ ev'.mac = mac /\ ~ev'.ok

\* the messages of mac that wait in the queue or are in flight
Live(mac) ==
  {messageQueues[mac][i] : i \in DOMAIN messageQueues[mac]} \cup {e.message : e \in pending[mac]}

\* C7: a message is enqueued again only by a failed verification of a message
\* with retryCount < 3, and then with retryCount + 1; and when no other frame
\* waits in the queue, each of these failures is followed at once by a further
\* setPilot of the same off vector, until the failure at retryCount = 3, which
\* enqueues and transmits nothing: 3 further attempts after the first.
C7_BoundedRetry ==
  [][\A mac \in Macs :
       /\ \A m \in Live(mac)' \ Live(mac) :
            m.retryCount > 0 =>
              /\ VerifyFailed(mac)
              /\ ev'.arg.message.retryCount < MaxRetries
              /\ m.retryCount = ev'.arg.message.retryCount + 1
              /\ Vec(m) = Vec(ev'.arg.message)
       /\ VerifyFailed(mac) /\ messageQueues[mac] = <<>> =>
            IF ev'.arg.message.retryCount < MaxRetries
            THEN /\ wire'[mac].count = wire[mac].count + 1
                 /\ wire'[mac].vec = Vec(ev'.arg.message)
                 /\ \E e \in Phase(mac, "send")' :
                      e.message.retryCount = ev'.arg.message.retryCount + 1
            ELSE /\ wire'[mac] = wire[mac]
                 /\ queueStats'[mac].queued = queueStats[mac].queued
                 /\ pending'[mac] = {}]_vars

\* what the tail of the send callback leaves for mac once the message of ev'
\* is done with: the message is gone for good, lastSent is its off vector (or
\* that of an off message suppressed right after it), and the pump has gone on
\* with what was queued: processing is taken again only for a message
\* dequeued from the head in the same handler
DoneWith(mac) ==
  /\ queueStats'[mac].queued = queueStats[mac].queued
  /\ IsSuffix(messageQueues'[mac], messageQueues[mac])
  /\ ev'.arg \notin pending'[mac]
  /\ \A e \in pending'[mac] : e.phase = "send" /\ e.message.seq > ev'.arg.message.seq
  /\ ~lastSentDmxValues'[mac].state
  /\ \/ lastSentDmxValues'[mac] = Vec(ev'.arg.message)
     \/ wire'[mac].offNoChange > wire[mac].offNoChange
  /\ messageQueues[mac] = <<>> =>
        /\ lastSentDmxValues'[mac] = Vec(ev'.arg.message)
        /\ ~processing'[mac]
  /\ Len(messageQueues'[mac]) = Len(messageQueues[mac]) - (wire'[mac].taken - wire[mac].taken)
  /\ processing'[mac] => wire'[mac].taken > wire[mac].taken

\* C8: when the verification of an off-transition succeeds the message is not
\* enqueued again, lastSent becomes the off vector (its state is false) and
\* processing is cleared, to be taken again only for a message dequeued next.
C8_VerifiedOff ==
  [][\A mac \in Macs :
       (ev'.op = "verifyDone" /\ ev'.mac = mac /\ ev'.ok) => DoneWith(mac)]_vars

\* a first-attempt off-transition was verified with nothing else queued
C8_Witness ==
  /\ ev.op = "verifyDone" /\ ev.ok
  /\ ev.arg.message.retryCount = 0
  /\ ~processing["m1"]
  /\ lastSentDmxValues["m1"] = Vec(ev.arg.message)
  /\ wire["m1"].count >= 2

\* C9: when the verification fails for a message with retryCount = 3 the
\* bridge gives up: the message is not enqueued again, lastSent becomes the
\* intended off vector, processing is cleared and the queue is drained on.
C9_GiveUp ==
  [][\A mac \in Macs :
       (VerifyFailed(mac) /\ ev'.arg.message.retryCount = MaxRetries) => DoneWith(mac)]_vars

\* the bridge gave up after the fourth attempt and went on to the next frame
C9_Witness ==
  /\ ev.op = "verifyDone" /\ ~ev.ok
  /\ ev.arg.message.retryCount = MaxRetries
  /\ ~lastSentDmxValues["m1"].state
  /\ Phase("m1", "send") # {}

C11_ReloadRetains ==
  [][(ev'.op = "load" /\ ev'.ok) =>
       \A mac \in Macs : BulbState(mac)' = BulbState(mac)]_vars

----------------------------------------------------------------------------
(* Supervisor of the bridge process (src/server.js)                        *)
(*                                                                         *)
(* children[c] is the c-th process spawned: alive until its 'exit' event   *)
(* has been emitted, killed once kill() was called on it; origin and after *)
(* are history (what spawned it, and for a restart the child whose exit    *)
(* set the timer). A restart timer may fire at any time after it was set:  *)
(* the clock only serves the comparison with lastRestartTime.              *)

MaxRequests == 2
MaxExits == 2
MaxCrashes == 7
MaxTicks == 1

\* the step of the clock between two handlers that the model distinguishes
TickMs == 60000

RECURSIVE Pow2(_)
\* Math.pow(2, n)
Pow2(n) == IF n = 0 THEN 1 ELSE 2 * Pow2(n - 1)

Min(a, b) == IF a < b THEN a ELSE b

\* mutation: the delay is not capped
RestartDelayUncapped(n) == Pow2(n) * BaseDelay

\* Math.min(Math.pow(2, restartCount) * 1000, MAX_RESTART_DELAY)
RestartDelay(n) == Min(Pow2(n) * BaseDelay, MAX_RESTART_DELAY)

\* lastRestartTime && (now - lastRestartTime) < 60000 ? restartCount + 1 : 0
NextRestartCount(n, last, now) ==
  IF last # 0 /\ (now - last) < RestartWindow THEN n + 1 ELSE 0

\* artnetDaemon && !artnetDaemon.killed
Running == artnetDaemon # 0 /\ ~children[artnetDaemon].killed

\* startArtNetDaemon: spawn and keep the handle
StartArtNetDaemon(origin, after) ==
  /\ children' = Append(children, [alive |-> TRUE, killed |-> FALSE,
                                   origin |-> origin, after |-> after])
  /\ artnetDaemon' = Len(children) + 1

\* app.listen callback: the daemon is started with the server
AppListen ==
  /\ ~listening
  /\ listening' = TRUE
  /\ StartArtNetDaemon("listen", 0)
  /\ supEv' = [op |-> "listen", child |-> Len(children) + 1, delay |-> 0]
  /\ UNCHANGED <<restartCount, lastRestartTime, timers, clock, stopped, nrequests>>
  /\ UNCHANGED <<bridgeVars, discVars>>

\* POST /api/artnet/start
StartRequest ==
  /\ listening
  /\ nrequests' = nrequests + 1
  /\ stopped' = FALSE
  /\ IF Running
       THEN /\ supEv' = [op |-> "start400", child |-> 0, delay |-> 0]
            /\ UNCHANGED <<children, artnetDaemon>>
       ELSE /\ StartArtNetDaemon("request", 0)
            /\ supEv' = [op |-> "start", child |-> Len(children) + 1, delay |-> 0]
  /\ UNCHANGED <<listening, restartCount, lastRestartTime, timers, clock>>
  /\ UNCHANGED <<bridgeVars, discVars>>

\* stopArtNetDaemon with a child to stop
StopArtNetDaemon ==
  /\ children' = [children EXCEPT ![artnetDaemon].killed = TRUE]
  /\ artnetDaemon' = 0
  /\ restartCount' = 0

\* POST /api/artnet/stop
StopRequest ==
  /\ listening
  /\ nrequests' = nrequests + 1
  /\ IF ~Running
       THEN /\ supEv' = [op |-> "stop400", child |-> 0, delay |-> 0]
            /\ UNCHANGED <<children, artnetDaemon, restartCount, stopped>>
       ELSE /\ StopArtNetDaemon
            /\ stopped' = TRUE
            /\ supEv' = [op |-> "stop", child |-> artnetDaemon, delay |-> 0]
  /\ UNCHANGED <<listening, lastRestartTime, timers, clock>>
  /\ UNCHANGED <<bridgeVars, discVars>>

\* artnetDaemon.on('exit') of child c
ChildExit(c) ==
  /\ children[c].alive
  /\ children' = [children EXCEPT ![c].alive = FALSE]
  /\ artnetDaemon' = 0
  /\ restartCount' = NextRestartCount(restartCount, lastRestartTime, clock)
  /\ lastRestartTime' = clock
  /\ timers' = timers \cup {[by |-> c, delay |-> RestartDelay(restartCount')]}
  /\ supEv' = [op |-> "exit", child |-> c, delay |-> RestartDelay(restartCount')]
  /\ UNCHANGED <<listening, clock, stopped, nrequests>>
  /\ UNCHANGED <<bridgeVars, discVars>>

\* mutation: the timer starts the daemon only if no handle is held
RestartTimerIfIdle(t) ==
  /\ t \in timers
  /\ timers' = timers \ {t}
  /\ IF artnetDaemon = 0
       THEN StartArtNetDaemon("timer", t.by)
       ELSE UNCHANGED <<children, artnetDaemon>>
  /\ supEv' = [op |-> "timer", child |-> artnetDaemon', delay |-> t.delay]
  /\ UNCHANGED <<listening, restartCount, lastRestartTime, clock, stopped, nrequests>>
  /\ UNCHANGED <<bridgeVars, discVars>>

\* the restart timer t fires
RestartTimer(t) ==
  /\ t \in timers
  /\ timers' = timers \ {t}
  /\ StartArtNetDaemon("timer", t.by)
  /\ supEv' = [op |-> "timer", child |-> Len(children) + 1, delay |-> t.delay]
  /\ UNCHANGED <<listening, restartCount, lastRestartTime, clock, stopped, nrequests>>
  /\ UNCHANGED <<bridgeVars, discVars>>

\* time passes
Tick ==
  /\ clock' = clock + TickMs
  /\ supEv' = [op |-> "tick", child |-> 0, delay |-> 0]
  /\ UNCHANGED <<listening, artnetDaemon, restartCount, lastRestartTime, children, timers,
                 stopped, nrequests>>
  /\ UNCHANGED <<bridgeVars, discVars>>

\* children whose 'exit' event has been handled
Exited == {c \in DOMAIN children : ~children[c].alive}

StartRequestStep == nrequests < MaxRequests /\ StartRequest
StopRequestStep == nrequests < MaxRequests /\ StopRequest
ChildExitStep(max) == Cardinality(Exited) < max /\ \E c \in DOMAIN children : ChildExit(c)
RestartTimerStep == \E t \in timers : RestartTimer(t)
TickStep == clock < Epoch + MaxTicks * TickMs /\ Tick

NextSup ==
  \/ AppListen
  \/ StartRequestStep
  \/ StopRequestStep
  \/ ChildExitStep(MaxExits)
  \/ RestartTimerStep
  \/ TickStep

SpecSup == Init /\ [][NextSup]_vars

\* a child that keeps crashing, stopped now and then, never started by request
NextCrashLoop ==
  \/ AppListen
  \/ StopRequestStep
  \/ ChildExitStep(MaxCrashes)
  \/ RestartTimerStep
  \/ TickStep

SpecCrashLoop == Init /\ [][NextCrashLoop]_vars

\* a timer that was set fires
SpecSupFair == SpecSup /\ WF_vars(RestartTimerStep)

\* C12: after an explicit stop no child is spawned until a start request:
\* the stop leaves no restart timer pending and restartCount at 0, the exit
\* of a killed child sets no restart timer, and while stopped nothing spawns.
C12_StopHolds ==
  [][/\ supEv'.op = "stop" => (timers' = {} /\ restartCount' = 0)
     /\ (supEv'.op = "exit" /\ children[supEv'.child].killed) => timers' = timers
     /\ (stopped /\ stopped') => children' = children]_vars

\* C13: every child exit sets one restart timer of min(2^n * 1000, 60000) ms,
\* where n, the new restartCount, is the old one plus 1 if the exit recorded
\* before is less than 60 s old and 0 otherwise (0 at the first exit); the
\* delay lies between 1 s and 60 s, and this exit is recorded as the last one.
C13_Backoff ==
  [][supEv'.op = "exit" =>
       LET recent == lastRestartTime # 0 /\ clock - lastRestartTime < RestartWindow
           n == restartCount'
           d == supEv'.delay
       IN /\ n = IF recent THEN restartCount + 1 ELSE 0
          /\ lastRestartTime' = clock
          /\ timers' = timers \cup {[by |-> supEv'.child, delay |-> d]}
          /\ [by |-> supEv'.child, delay |-> d] \notin timers
          /\ Pow2(n) * 1000 <= 60000 => d = Pow2(n) * 1000
          /\ Pow2(n) * 1000 > 60000 => d = 60000
          /\ 1000 <= d /\ d <= 60000]_vars

\* the seventh exit within 60 s: 2^6 s is capped to 60 s
C13_Witness ==
  /\ supEv.op = "exit"
  /\ restartCount = 6
  /\ supEv.delay = MAX_RESTART_DELAY
  /\ [by |-> supEv.child, delay |-> MAX_RESTART_DELAY] \in timers

\* the children that the bounds of SpecSup allow: one per start and one per exit
ChildIds == 1..(1 + MaxRequests + MaxExits)

\* child c exited without having been killed by stopArtNetDaemon
Crashed(c) == c \in DOMAIN children /\ ~children[c].alive /\ ~children[c].killed

\* the children spawned by the restart timer that the exit of c set
RestartsOf(c) == {d \in DOMAIN children : children[d].origin = "timer" /\ children[d].after = c}

\* C14: every exit of a child that was not killed by a stop is followed by
\* exactly one spawn: its restart timer is pending or has spawned one child,
\* never more, and the timer does fire.
C14_RestartOnce ==
  /\ [](\A c \in DOMAIN children : Crashed(c) =>
          Cardinality(RestartsOf(c)) + Cardinality({t \in timers : t.by = c}) = 1)
  /\ \A c \in ChildIds : Crashed(c) ~> (Cardinality(RestartsOf(c)) = 1)

\* a crashed child was restarted by its timer although a start request had
\* already spawned another child in between
C14_Witness ==
  /\ supEv.op = "timer"
  /\ \E c \in DOMAIN children :
       /\ Crashed(c)
       /\ Cardinality(RestartsOf(c)) = 1
       /\ \E d \in DOMAIN children : d > c /\ children[d].origin = "request" /\ children[d].alive

\* the places in the order of enqueueing of the messages queued for mac
QueuedSeqs(mac) == [i \in 1..Len(messageQueues[mac]) |-> messageQueues[mac][i].seq]

\* twelve frames, each differing from the one before, have been handled for
\* mac while the send of the first is still awaiting its callback
TwelveBehindStalledSend(mac) ==
  /\ nframes = 12
  /\ queueStats[mac].queued = 12
  /\ queueStats[mac].sent = 0
  /\ \E e \in Phase(mac, "send") : e.message.seq = 1

\* C15 as stated: in that state two messages have been dropped and the queue
\* holds frames 3..12 in order.
C15_AsStated ==
  \A mac \in Macs : TwelveBehindStalledSend(mac) =>
    /\ queueStats[mac].dropped = 2
    /\ QueuedSeqs(mac) = [i \in 1..10 |-> i + 2]

\* C15, amended: in that state frame 1 is in flight, the queue holds frames
\* 3..12 in order, and one message (frame 2) has been dropped.
C15_Overflow ==
  \A mac \in Macs : TwelveBehindStalledSend(mac) =>
    /\ queueStats[mac].dropped = 1
    /\ QueuedSeqs(mac) = [i \in 1..10 |-> i + 2]
    /\ pending[mac] = Phase(mac, "send") /\ Cardinality(pending[mac]) = 1
    /\ wire[mac].taken = 1

\* the scenario has happened
C15_Witness == "m1" \in Macs /\ TwelveBehindStalledSend("m1")

\* C16 as stated: dropped = queued - sent - queue length, in every state.
C16_AsStated ==
  \A mac \in Macs :
    queueStats[mac].dropped
      = queueStats[mac].queued - queueStats[mac].sent - Len(messageQueues[mac])

\* messages of mac taken from the queue and not counted as sent: the one whose
\* send callback has not run yet, and the one that was discarded as equal to
\* lastSent (after which the pump does not run again)
TakenUnsent(mac) == Cardinality(Phase(mac, "send")) + (IF Stalled(mac) THEN 1 ELSE 0)

\* C16, amended: dropped = queued - sent - queue length - the messages taken
\* from the queue and not counted as sent, of which there is at most one.
C16_DropAccounting ==
  \A mac \in Macs :
    /\ queueStats[mac].dropped
         = queueStats[mac].queued - queueStats[mac].sent - Len(messageQueues[mac])
             - TakenUnsent(mac)
    /\ TakenUnsent(mac) <= 1

\* overflow: the queue is full, messages have been sent and dropped and one
\* is in flight
C16_Witness ==
  /\ "m1" \in Macs
  /\ Len(messageQueues["m1"]) = QueueLimit
  /\ queueStats["m1"].dropped >= 1
  /\ queueStats["m1"].sent >= 1
  /\ Phase("m1", "send") # {}

\* C17: a reload whose storage.readAll() fails leaves the device list and all
\* per-bulb state as they were (the reload timer is not touched, so the next
\* tick loads again).
C17_FailedReloadKeeps ==
  [][(ev'.op = "load" /\ ~ev'.ok) =>
       UNCHANGED <<devices, lastReceivedDmxValues, lastSentDmxValues, messageQueues,
                   processing, queueStats, pending, wire>>]_vars

\* a reload failed while a bulb had a last-sent vector, a send in flight and
\* a message queued
C17_Witness ==
  /\ ev.op = "load" /\ ~ev.ok
  /\ devices = <<D1>>
  /\ lastSentDmxValues["m1"].state
  /\ pending["m1"] # {}
  /\ Len(messageQueues["m1"]) >= 1

----------------------------------------------------------------------------
(* Bulb discovery (src/wiz-discovery.js)                                   *)
(*                                                                         *)
(* A datagram is described by what JSON.parse makes of it: json is         *)
(* "garbage" (parse throws), "null" (parses to null) or "object"; for an   *)
(* object method, result (whether response.result is there), and the mac,  *)
(* state and dimming of the result ("" and 0 for an absent field);         *)
(* address is rinfo.address.                                               *)

MaxDatagrams == 3

Replies ==
  [json : {"object"}, method : {"getPilot"}, result : {TRUE}, mac : {"a", "b"},
   state : {TRUE}, dimming : {50}, address : {"ip1", "ip2"}]
  \cup
  [json : {"object"}, method : {"getPilot"}, result : {TRUE}, mac : {"a", "b"},
   state : {FALSE}, dimming : {0}, address : {"ip1", "ip2"}]

Malformed ==
  { [json |-> "garbage", method |-> "", result |-> FALSE, mac |-> "", state |-> FALSE,
     dimming |-> 0, address |-> "ip1"],
    [json |-> "null", method |-> "", result |-> FALSE, mac |-> "", state |-> FALSE,
     dimming |-> 0, address |-> "ip1"],
    [json |-> "object", method |-> "setPilot", result |-> TRUE, mac |-> "a", state |-> TRUE,
     dimming |-> 50, address |-> "ip1"],
    [json |-> "object", method |-> "getPilot", result |-> FALSE, mac |-> "", state |-> FALSE,
     dimming |-> 0, address |-> "ip2"],
    [json |-> "object", method |-> "getPilot", result |-> TRUE, mac |-> "", state |-> TRUE,
     dimming |-> 50, address |-> "ip2"] }

Datagrams == Replies \cup Malformed

\* JSON.parse throws, or reading response.method of null throws
ParseThrows(d) == d.json \in {"garbage", "null"}

\* response.method === 'getPilot' && response.result && response.result.mac
IsGetPilotReply(d) ==
  ~ParseThrows(d) /\ d.method = "getPilot" /\ d.result /\ d.mac # ""

\* the record pushed for a reply
DeviceOf(d) ==
  [macAddress |-> d.mac, ipAddress |-> d.address, state |-> d.state,
   dimming |-> IF d.dimming = 0 THEN 100 ELSE d.dimming,
   raw |-> [mac |-> d.mac, state |-> d.state, dimming |-> d.dimming]]

\* socket.close(): throws on a socket that is already closed
SocketClose(s) ==
  IF s.state = "closed"
    THEN [s EXCEPT !.threw = TRUE]
    ELSE [s EXCEPT !.state = "closed", !.closes = @ + 1]

\* resolve or reject: only the first call settles the promise
Settle(p, state, value) ==
  IF p.state = "pending"
    THEN [state |-> state, value |-> value, calls |-> p.calls + 1]
    ELSE [p EXCEPT !.calls = @ + 1]

\* mutation: every reply is pushed
OnMessageNoDedupe(d) ==
  /\ socket.state = "listening"
  /\ received' = Append(received, d)
  /\ IF IsGetPilotReply(d)
       THEN /\ seenMacs' = seenMacs \cup {d.mac}
            /\ discoveredDevices' = Append(discoveredDevices, DeviceOf(d))
       ELSE UNCHANGED <<seenMacs, discoveredDevices>>
  /\ UNCHANGED <<socket, promise>>
  /\ UNCHANGED <<bridgeVars, supVars>>

\* socket.on('message')
OnMessage(d) ==
  /\ socket.state = "listening"
  /\ received' = Append(received, d)
  /\ IF IsGetPilotReply(d) /\ d.mac \notin seenMacs
       THEN /\ seenMacs' = seenMacs \cup {d.mac}
            /\ discoveredDevices' = Append(discoveredDevices, DeviceOf(d))
       ELSE UNCHANGED <<seenMacs, discoveredDevices>>
  /\ UNCHANGED <<socket, promise>>
  /\ UNCHANGED <<bridgeVars, supVars>>

\* socket.on('listening'): the broadcast is handed to send, the deadline timer set
OnListening ==
  /\ socket.state = "created"
  /\ socket' = [socket EXCEPT !.state = "listening", !.sending = TRUE, !.timer = TRUE]
  /\ UNCHANGED <<discoveredDevices, seenMacs, promise, received>>
  /\ UNCHANGED <<bridgeVars, supVars>>

\* the callback of the broadcast send
OnSent(err) ==
  /\ socket.sending
  /\ IF err
       THEN /\ socket' = [SocketClose(socket) EXCEPT !.sending = FALSE]
            /\ promise' = IF socket'.threw THEN promise ELSE Settle(promise, "rejected", <<>>)
       ELSE /\ socket' = [socket EXCEPT !.sending = FALSE]
            /\ UNCHANGED promise
  /\ UNCHANGED <<discoveredDevices, seenMacs, received>>
  /\ UNCHANGED <<bridgeVars, supVars>>

\* the deadline timer
OnDeadline ==
  /\ socket.timer
  /\ socket' = [SocketClose(socket) EXCEPT !.timer = FALSE]
  /\ promise' = IF socket'.threw THEN promise ELSE Settle(promise, "resolved", discoveredDevices)
  /\ UNCHANGED <<discoveredDevices, seenMacs, received>>
  /\ UNCHANGED <<bridgeVars, supVars>>

\* socket.on('error')
OnError ==
  /\ socket.state # "closed"
  /\ socket' = SocketClose(socket)
  /\ promise' = Settle(promise, "rejected", <<>>)
  /\ UNCHANGED <<discoveredDevices, seenMacs, received>>
  /\ UNCHANGED <<bridgeVars, supVars>>

OnMessageStep == Len(received) < MaxDatagrams /\ \E d \in Datagrams : OnMessage(d)
OnSentStep == \E err \in BOOLEAN : OnSent(err)

NextDisc ==
  \/ OnListening
  \/ OnMessageStep
  \/ OnSentStep
  \/ OnDeadline
  \/ OnError

SpecDisc == Init /\ [][NextDisc]_vars

\* the places in received of the getPilot replies
ReplyAt == {i \in 1..Len(received) : IsGetPilotReply(received[i])}

\* the place of the first reply of mac
FirstReply(mac) ==
  CHOOSE i \in ReplyAt : received[i].mac = mac /\ \A j \in ReplyAt : received[j].mac = mac => i <= j

\* C18: the list holds one entry per MAC that a getPilot reply carried, no
\* MAC twice, each entry made from the first reply of its MAC; a datagram that
\* is not such a reply changes neither the list nor the socket nor the promise;
\* the list that is returned at the deadline is this list.
C18_EachMacOnce ==
  /\ [](/\ \A i, j \in 1..Len(discoveredDevices) :
             discoveredDevices[i].macAddress = discoveredDevices[j].macAddress => i = j
        /\ {discoveredDevices[i].macAddress : i \in 1..Len(discoveredDevices)}
             = {received[i].mac : i \in ReplyAt}
        /\ \A i \in 1..Len(discoveredDevices) :
             LET first == received[FirstReply(discoveredDevices[i].macAddress)]
             IN /\ discoveredDevices[i].ipAddress = first.address
                /\ discoveredDevices[i].state = first.state
                /\ discoveredDevices[i].raw.dimming = first.dimming
        /\ promise.state = "resolved" => promise.value = discoveredDevices)
  /\ [][(received' # received /\ ~IsGetPilotReply(received'[Len(received')])) =>
          UNCHANGED <<discoveredDevices, seenMacs, socket, promise>>]_vars

\* the list was returned with one entry for a MAC that replied twice, from two
\* addresses, with a malformed datagram received as well
C18_Witness ==
  /\ promise.state = "resolved"
  /\ Len(promise.value) = 1
  /\ Len(received) = 3
  /\ IsGetPilotReply(received[1]) /\ received[1].address = "ip1"
  /\ IsGetPilotReply(received[2]) /\ received[2].address = "ip2"
  /\ received[2].mac = received[1].mac
  /\ ParseThrows(received[3])
  /\ promise.value[1].ipAddress = "ip1"

\* C19: a DMX frame of a universe other than 0 changes nothing: no last
\* value, no queue, no flag, no counter, no send.
C19_OtherUniverseIgnored ==
  [][(ev'.op = "dmx" /\ ev'.arg.universe # 0) =>
       UNCHANGED <<devices, lastReceivedDmxValues, lastSentDmxValues, messageQueues,
                   processing, queueStats, pending, wire>>]_vars

\* a frame of universe 1 was handled whose slots differ from the last values
\* received for the bulb, while the pump was idle and while it was busy
C19_Witness ==
  /\ ev.op = "dmx" /\ ev.arg.universe = 1
  /\ devices = <<D1>>
  /\ ~SameVector(lastReceivedDmxValues["m1"], VectorOf(ev.arg, D1))
  /\ pending["m1"] # {}

\* C20: for the dimmer byte raw of a frame, the dimming computed is the
\* integer nearest to raw / 255 * 100 (halves upwards), it lies in 0..100,
\* state is true exactly when it is above 0, raw 0 gives 0 and false, raw 255
\* gives 100 and true, raw 127 gives 50; and this is the vector the bridge
\* holds as last received for the bulb.
C20_Dimming ==
  (ev.op = "dmx" /\ devices = <<D1>>) =>
    LET raw == Slot(ev.arg, D1.channel + 4)
        v == VectorOf(ev.arg, D1)
    IN /\ raw \in 0..255
       /\ v.dimming \in 0..100
       /\ 510 * v.dimming - 255 <= 200 * raw /\ 200 * raw < 510 * v.dimming + 255
       /\ v.state <=> v.dimming > 0
       /\ raw = 0 => (v.dimming = 0 /\ ~v.state)
       /\ raw = 255 => (v.dimming = 100 /\ v.state)
       /\ raw = 127 => v.dimming = 50
       /\ SameVector(lastReceivedDmxValues["m1"], v)

\* a frame with dimmer byte 127 was handled and its message, dimming 50 and
\* state true, is being sent
C20_Witness ==
  /\ ev.op = "dmx" /\ devices = <<D1>>
  /\ Slot(ev.arg, D1.channel + 4) = 127
  /\ lastReceivedDmxValues["m1"].dimming = 50
  /\ \E e \in Phase("m1", "send") : e.message.dimming = 50 /\ e.message.state

----------------------------------------------------------------------------
(* Pump progress, latest frame, supervisor handle, send errors *)

\* C21: when processQueue takes a message equal to lastSent it clears
\* processing and goes on with the queue: the pump is never left with
\* processing set and nothing in flight.
C21_CoalesceClears == \A mac \in Macs : ~Stalled(mac)

\* send callbacks, timers and verification results are delivered
SpecFair ==
  /\ Spec
  /\ WF_vars(SendDoneStep)
  /\ WF_vars(SleepDoneStep)
  /\ WF_vars(VerifyDoneStep)

\* C22: processing set always leads to processing cleared, and a queue that
\* holds messages is emptied once frames stop arriving (in every behaviour of
\* the model they do stop).
C22_PumpProgress ==
  /\ ("m1" \in Macs /\ processing["m1"]) ~> ("m1" \in Macs /\ ~processing["m1"])
  /\ ("m1" \in Macs /\ messageQueues["m1"] # <<>>)
       ~> ("m1" \in Macs /\ messageQueues["m1"] = <<>>)

\* a second on pattern, of another colour
POnB == <<0, 0, 255, 0, 0, 255>>

TwoColourFrames == Frames \cup { [universe |-> 0, data |-> POnB] }

\* the bulb is loaded once and never reloaded
NextNoReload ==
  \/ DmxStep(TwoColourFrames, MaxFrames)
  \/ (devices = <<>> /\ LoadDevices(<<D1>>))
  \/ SendDoneStep
  \/ SleepDoneStep
  \/ VerifyDoneStep

SpecNoReload == Init /\ [][NextNoReload]_vars

\* C23: without config reloads after the first load, whenever the pump of a
\* bulb is idle (queue empty, processing clear) lastSent equals lastReceived.
C23_LatestFrameWins ==
  \A mac \in Macs :
    (messageQueues[mac] = <<>> /\ ~processing[mac]) =>
       SameVector(lastSentDmxValues[mac], lastReceivedDmxValues[mac])

\* the children that are alive and were not killed by stopArtNetDaemon
AliveChildren == {c \in DOMAIN children : children[c].alive /\ ~children[c].killed}

\* C24: at most one child is alive (a child that was killed and has not yet
\* exited is not counted), and nothing is spawned while a child is alive or a
\* restart timer is pending.
C24_OneChild ==
  /\ [](Cardinality(AliveChildren) <= 1)
  /\ [][Len(children') > Len(children) => (AliveChildren = {} /\ timers' = {})]_vars

\* C25: the running flag of the status operation is true exactly when a child
\* that was spawned is alive and was not asked to stop.
C25_RunningFlag == Running <=> AliveChildren # {}

\* C26: the callback of a setPilot send that failed counts the message as
\* sent and leaves the pump running: it is verifying the off-transition, or
\* processing is clear, or the next message is in flight; it is never left
\* with processing set and nothing in flight.
C26_SendErrorCompletes ==
  [][\A mac \in Macs :
       (ev'.op = "sendDone" /\ ev'.mac = mac /\ ~ev'.ok) =>
          /\ queueStats'[mac].sent >= queueStats[mac].sent + 1
          /\ ev'.arg \notin pending'[mac]
          /\ ~Stalled(mac)']_vars

\* ---------------------------------------------------------------------------
\* verifyState: the getPilot query that follows an off transition
\* ---------------------------------------------------------------------------

MaxVerifyFrames == 2
MaxHeard == 2

NoDatagram ==
  [json |-> "", method |-> "", result |-> FALSE, mac |-> "", state |-> FALSE,
   dimming |-> 0, address |-> ""]

\* what reaches udpClient while a query is out: the bulb reporting off (a reply
\* without result.state reads as off too), the bulb reporting on, another
\* bulb reporting off, bytes that do not parse, the bulb's setPilot answer
VerifyDatagrams ==
  { [json |-> "object", method |-> "getPilot", result |-> TRUE, mac |-> "a", state |-> FALSE,
     dimming |-> 0, address |-> "ip1"],
    [json |-> "object", method |-> "getPilot", result |-> TRUE, mac |-> "a", state |-> TRUE,
     dimming |-> 50, address |-> "ip1"],
    [json |-> "object", method |-> "getPilot", result |-> TRUE, mac |-> "b", state |-> FALSE,
     dimming |-> 0, address |-> "ip2"],
    [json |-> "garbage", method |-> "", result |-> FALSE, mac |-> "", state |-> FALSE,
     dimming |-> 0, address |-> "ip1"],
    [json |-> "object", method |-> "setPilot", result |-> TRUE, mac |-> "a", state |-> FALSE,
     dimming |-> 0, address |-> "ip1"] }

\* the closure of one verifyState(device, false, 1000) call; history: first is
\* the first event of its window that called resolve, sawOff whether the
\* bulb's address reported off within the window
VerifyState(device) ==
  [mac |-> device.macAddress, ip |-> device.ipAddress, expectedState |-> FALSE,
   listening |-> TRUE, sending |-> TRUE, timer |-> TRUE, responseReceived |-> FALSE,
   promise |-> "pending", resolves |-> 0, awaited |-> TRUE, first |-> "none", sawOff |-> FALSE]

\* resolve(value): only the first call settles the promise
Resolve(v, value) ==
  [v EXCEPT !.promise = IF @ = "pending" THEN (IF value THEN "passed" ELSE "failed") ELSE @,
            !.resolves = @ + 1]

\* a getPilot reply with a result from the queried address
FromBulb(v, kind, d) ==
  /\ kind = "message" /\ d.address = v.ip
  /\ ~ParseThrows(d) /\ d.method = "getPilot" /\ d.result

ReportsOff(v, kind, d) == FromBulb(v, kind, d) /\ d.state = v.expectedState

\* an event that calls resolve
Decisive(v, kind, d) == FromBulb(v, kind, d) \/ kind \in {"sendError", "timeout"}

Logged(v, kind, d) ==
  IF ~v.timer THEN v
  ELSE [v EXCEPT !.first = IF @ # "none" \/ ~Decisive(v, kind, d) THEN @
                           ELSE IF kind # "message" THEN kind
                           ELSE IF ReportsOff(v, kind, d) THEN "off" ELSE "on",
                 !.sawOff = @ \/ ReportsOff(v, kind, d)]

ResponseHandlerAnyAddress(v, d) ==
  IF ~v.listening THEN v
  ELSE IF ParseThrows(d) THEN v
  ELSE IF d.method = "getPilot" /\ d.result
       THEN Resolve([v EXCEPT !.responseReceived = TRUE], d.state = v.expectedState)
       ELSE v

ResponseHandler(v, d) ==
  IF ~v.listening THEN v
  ELSE IF d.address # v.ip THEN v
  ELSE IF ParseThrows(d) THEN v
  ELSE IF d.method = "getPilot" /\ d.result
       THEN Resolve([v EXCEPT !.responseReceived = TRUE], d.state = v.expectedState)
       ELSE v

\* a closure nothing refers to any more
Collected(v) == ~v.awaited /\ ~v.sending /\ ~v.timer

Collect(s) == SelectSeq(s, LAMBDA v : ~Collected(v))

\* the 200 ms wait is over: verifyState runs up to its return
VerifyStateCall(mac, e) ==
  /\ e \in pending[mac] /\ e.phase = "sleep"
  /\ pending' = [pending EXCEPT ![mac] = (@ \ {e}) \cup {[e EXCEPT !.phase = "verify"]}]
  /\ verifier' = [verifier EXCEPT !.calls = Append(@, VerifyState(e.message.device))]
  /\ ev' = [op |-> "sleepDone", mac |-> mac, arg |-> e, ok |-> TRUE, evicted |-> FALSE]
  /\ UNCHANGED <<devices, lastReceivedDmxValues, lastSentDmxValues, messageQueues,
                 processing, queueStats, wire, nframes, nreloads, supVars, discVars>>

\* a datagram arrives: every listener still attached runs
VerifyMessage(d) ==
  /\ \E i \in DOMAIN verifier.calls : verifier.calls[i].timer
  /\ verifier' = [calls |-> [i \in DOMAIN verifier.calls |->
                                ResponseHandler(Logged(verifier.calls[i], "message", d), d)],
                   heard |-> verifier.heard + 1]
  /\ ev' = [op |-> "verifyMessage", mac |-> "", arg |-> d, ok |-> TRUE, evicted |-> FALSE]
  /\ UNCHANGED <<devices, lastReceivedDmxValues, lastSentDmxValues, messageQueues,
                 processing, queueStats, pending, wire, nframes, nreloads, supVars, discVars>>

\* the callback of the getPilot send
VerifySent(i, err) ==
  /\ i \in DOMAIN verifier.calls /\ verifier.calls[i].sending
  /\ LET v == [verifier.calls[i] EXCEPT !.sending = FALSE]
         w == IF err THEN Resolve([Logged(v, "sendError", NoDatagram) EXCEPT !.listening = FALSE],
                                  FALSE)
                     ELSE v
     IN verifier' = [verifier EXCEPT !.calls = Collect([@ EXCEPT ![i] = w])]
  /\ ev' = [op |-> "verifySent", mac |-> verifier.calls[i].mac, arg |-> i, ok |-> ~err,
            evicted |-> FALSE]
  /\ UNCHANGED <<devices, lastReceivedDmxValues, lastSentDmxValues, messageQueues,
                 processing, queueStats, pending, wire, nframes, nreloads, supVars, discVars>>

\* the 1000 ms timer
VerifyTimeout(i) ==
  /\ i \in DOMAIN verifier.calls /\ verifier.calls[i].timer
  /\ LET v == [Logged(verifier.calls[i], "timeout", NoDatagram) EXCEPT !.timer = FALSE,
                                                                   !.listening = FALSE]
         w == IF ~v.responseReceived THEN Resolve(v, FALSE) ELSE v
     IN verifier' = [verifier EXCEPT !.calls = Collect([@ EXCEPT ![i] = w])]
  /\ ev' = [op |-> "verifyTimeout", mac |-> verifier.calls[i].mac, arg |-> i, ok |-> TRUE,
            evicted |-> FALSE]
  /\ UNCHANGED <<devices, lastReceivedDmxValues, lastSentDmxValues, messageQueues,
                 processing, queueStats, pending, wire, nframes, nreloads, supVars, discVars>>

\* the await in the send callback resumes with the promise's value
VerifySettled(mac, e) ==
  /\ e \in pending[mac] /\ e.phase = "verify"
  /\ \E i \in DOMAIN verifier.calls :
       /\ verifier.calls[i].awaited /\ verifier.calls[i].mac = mac
       /\ verifier.calls[i].promise # "pending"
       /\ LET verified == verifier.calls[i].promise = "passed"
              B == AfterVerify([Bridge EXCEPT !.pending[mac] = @ \ {e}], e.message, verified)
          IN /\ Install(B)
             /\ ev' = [op |-> "verifyDone", mac |-> mac, arg |-> e, ok |-> verified,
                       evicted |-> Evicted(B, mac)]
       /\ verifier' = [verifier EXCEPT !.calls = Collect([@ EXCEPT ![i].awaited = FALSE])]
  /\ UNCHANGED <<devices, nframes, nreloads, supVars, discVars>>

VerifyStateCallStep == \E mac \in Macs : \E e \in pending[mac] : VerifyStateCall(mac, e)
VerifyMessageStep ==
  /\ verifier.heard < MaxHeard
  /\ \E d \in VerifyDatagrams : VerifyMessage(d)
\* sends on one socket complete in the order they were issued
VerifySentStep ==
  \E i \in DOMAIN verifier.calls :
    /\ \A j \in 1..(i - 1) : ~verifier.calls[j].sending
    /\ \E err \in BOOLEAN : VerifySent(i, err)
\* timers of one delay fire in the order they were set
VerifyTimeoutStep ==
  \E i \in DOMAIN verifier.calls :
    /\ \A j \in 1..(i - 1) : ~verifier.calls[j].timer
    /\ VerifyTimeout(i)
VerifySettledStep == \E mac \in Macs : \E e \in pending[mac] : VerifySettled(mac, e)

\* one bulb switched on and then off, the query's events in every order
NextVerify ==
  \/ DmxStep(BurstFrames, MaxVerifyFrames)
  \/ (devices = <<>> /\ LoadDevices(<<D1>>))
  \/ SendDoneStep
  \/ VerifyStateCallStep
  \/ VerifyMessageStep
  \/ VerifySentStep
  \/ VerifyTimeoutStep
  \/ VerifySettledStep

SpecVerify == Init /\ [][NextVerify]_vars

\* C27 as stated: once the window is over, the query passed exactly if the bulb's
\* address reported off at some point within it
C27_AsStated ==
  \A i \in DOMAIN verifier.calls :
    ~verifier.calls[i].timer =>
      (verifier.calls[i].promise = "passed" <=> verifier.calls[i].sawOff)

\* C27 amended: the first event that calls resolve decides. The query passes
\* exactly if that event is a getPilot reply from the bulb's address reporting
\* off; a reply reporting on, a send error and the timeout fail it, whatever
\* arrives afterwards; other addresses, unparseable bytes and other methods are
\* ignored; the promise is settled when the window ends and never changes.
C27_FirstReplyDecides ==
  \A i \in DOMAIN verifier.calls :
    LET v == verifier.calls[i]
    IN /\ (v.promise = "pending") <=> (v.first = "none")
       /\ (v.promise = "passed") <=> (v.first = "off")
       /\ ~v.timer => v.promise # "pending"
       /\ (v.promise # "pending") <=> (v.resolves >= 1)

\* the bulb reported on, then off, within one window: the query failed
C27_Witness ==
  \E i \in DOMAIN verifier.calls :
    LET v == verifier.calls[i]
    IN /\ ~v.timer /\ v.promise = "failed" /\ v.resolves >= 2
       /\ v.first = "on" /\ v.sawOff

\* ---------------------------------------------------------------------------
\* When lastSent is written
\* ---------------------------------------------------------------------------

\* the step rewrote the last sent vector of a bulb that stays configured
Rewritten(mac) ==
  /\ mac \in Macs /\ mac \in DOMAIN lastSentDmxValues'
  /\ lastSentDmxValues'[mac] # lastSentDmxValues[mac]

\* the step ended the send of the message it was delivered for: a send callback
\* of a message that needs no verification, or a verification that passed or
\* had no retry left
Finalised(mac) ==
  /\ ev'.mac = mac
  /\ \/ /\ ev'.op = "sendDone"
        /\ ~(ev'.arg.stateChanged /\ ~ev'.arg.message.state)
     \/ /\ ev'.op = "verifyDone"
        /\ (ev'.ok \/ ev'.arg.message.retryCount >= MaxRetries)

\* the step took an off message while the bulb was recorded as off: the codec
\* sends nothing and runs the send callback at once
SuppressedInStep(mac) ==
  /\ wire'[mac].offNoChange > wire[mac].offNoChange
  /\ queueStats'[mac].sent > queueStats[mac].sent
  /\ ~lastSentDmxValues'[mac].state

\* C28 as stated: apart from a config load, lastSent[mac] changes only in the
\* step that delivers the completion of a send for that bulb (the send callback,
\* or the end of the verification of an off transition), never in a step that
\* enqueues, dequeues or re-enqueues
C28_AsStated ==
  [][\A mac \in Macs :
       (Rewritten(mac) /\ ev'.op # "load") => Finalised(mac)]_vars

\* C28 amended: apart from a config load, lastSent[mac] changes only when the
\* send callback of a message has run: in the step that ends a send (for an off
\* transition, the step in which the verification passed or the last retry
\* failed), where it becomes that message's vector, or in any step of the pump
\* that dequeues an off message while lastSent is already off, where the codec
\* sends nothing, the callback runs inside the same handler and lastSent
\* becomes that off vector. A step without a send callback leaves it alone.
C28_WrittenOnCompletion ==
  [][\A mac \in Macs :
       (Rewritten(mac) /\ ev'.op # "load") =>
         \/ Finalised(mac) /\ lastSentDmxValues'[mac] = Vec(ev'.arg.message)
         \/ SuppressedInStep(mac)]_vars

\* an arriving frame has rewritten lastSent within the handler that enqueued it
C28_Witness ==
  /\ ev.op = "dmx" /\ "m1" \in Macs /\ nframes = 1
  /\ lastSentDmxValues["m1"] = VectorOf(ev.arg, D1)
  /\ lastSentDmxValues["m1"] # ZeroVector
  /\ queueStats["m1"].sent = 1 /\ wire["m1"].count = 0 /\ wire["m1"].offNoChange = 1

\* ---------------------------------------------------------------------------
\* Two bulbs
\* ---------------------------------------------------------------------------

MaxPairFrames == 2

D2 == [macAddress |-> "m2", channel |-> 7, ipAddress |-> "ip2"]

\* twelve slots: bulb m1 in 1..6, bulb m2 in 7..12, each on or off
PairFrames == { [universe |-> 0, data |-> a \o b] : a \in {POff0, POn}, b \in {POff0, POn} }

\* frames that change m1 only
PairBurstFrames == { [universe |-> 0, data |-> a \o POn] : a \in {POff0, POn} }

\* the frames of a burst arrive within the time of one send: no callback runs
\* between the first and the last of them
InBurst == nframes > MaxPairFrames /\ nframes < MaxBurst

\* any of the frames at first, then a burst for m1
NextPair ==
  \/ DmxStep(PairFrames, MaxPairFrames)
  \/ DmxStep(PairBurstFrames, MaxBurst)
  \/ (devices = <<>> /\ LoadDevices(<<D1, D2>>))
  \/ (~InBurst /\ SendDoneStep)
  \/ (~InBurst /\ SleepDoneStep)
  \/ (~InBurst /\ VerifyDoneStep)

SpecPair == Init /\ [][NextPair]_vars

\* what the bridge B holds for one bulb
StateIn(B, mac) ==
  <<B.lastReceived[mac], B.lastSent[mac], B.queues[mac], B.processing[mac], B.stats[mac],
    B.pending[mac], B.wire[mac]>>

\* C29: a step of bulb A's pump (send completion, sleep, verification with its
\* retry or completion) leaves lastReceived, lastSent, queue, processing, stats
\* and the in-flight send of every other bulb B as they were; a frame changes B
\* exactly as it would if B were the only bulb, whatever it enqueues or evicts
\* for A; and while A is stalled or verifying, a bulb B with a non-empty queue
\* that is not itself stalled has its own callback outstanding.
C29_Independent ==
  /\ [][\A a \in Macs : \A b \in Macs \ {a} :
          (ev'.op \in {"sendDone", "sleepDone", "verifyDone"} /\ ev'.mac = a)
             => BulbState(b)' = BulbState(b)]_vars
  /\ [][ev'.op = "dmx" =>
          \A i \in DOMAIN devices :
            BulbState(devices[i].macAddress)'
              = StateIn(IF ev'.arg.universe # 0 THEN Bridge
                        ELSE HandleDevice(Bridge, ev'.arg, devices[i]),
                        devices[i].macAddress)]_vars
  /\ [](\A a \in Macs : \A b \in Macs \ {a} :
          ((Stalled(a) \/ Verifying(a) # {}) /\ messageQueues[b] # <<>> /\ ~Stalled(b))
             => pending[b] # {})

\* m1 has lost a message to the queue limit and its pump is stalled, and m2's
\* send has just completed and its pump has taken its next message
C29_Witness ==
  /\ Macs = {"m1", "m2"}
  /\ Stalled("m1") /\ queueStats["m1"].dropped >= 1
  /\ ev.op = "sendDone" /\ ev.mac = "m2"
  /\ queueStats["m2"].sent >= 1 /\ wire["m2"].taken >= 2

\* ---------------------------------------------------------------------------
\* Discovery: the socket and the promise on the error paths
\* ---------------------------------------------------------------------------

\* the run has nothing left to do: no send callback and no timer outstanding
DiscoveryOver == socket.state = "closed" /\ ~socket.sending /\ ~socket.timer

\* C30: on every path the discovery socket is closed exactly once and the
\* promise is settled exactly once, and the deadline timer never acts on a
\* socket that an error path has closed: no close is ever attempted on a closed
\* socket, resolve and reject are called once between them, and a run that is
\* over has closed the socket and settled the promise.
C30_ClosedOnce ==
  /\ ~socket.threw
  /\ socket.closes <= 1
  /\ promise.calls <= 1
  /\ DiscoveryOver => (socket.closes = 1 /\ promise.state # "pending")

====
